---- MODULE Spec2Model ----
(***************************************************************************)
(* Model of the Japanese practice application (src/App.tsx and the gemini  *)
(* service module).  Strings are sequences of characters; a character is a *)
(* one-token string.  The six punctuation marks of the segmenter's regular *)
(* expression are written with ASCII names:                                *)
(*   "JMARU" ideographic full stop    "JTEN" ideographic comma             *)
(*   "FQ"    full-width question mark "?"    half-width question mark      *)
(*   "FEX"   full-width exclamation   "!"    half-width exclamation        *)
(* "IDSP" is the ideographic space U+3000, which JavaScript's trim() and   *)
(* the class \s both treat as whitespace.                                  *)
(***************************************************************************)
EXTENDS Integers, Sequences, FiniteSets, TLC

VARIABLES
    currentScenarioIdx,   \* useState(0)
    currentDialogueIdx,   \* useState(0)
    userInputs,           \* useState<string[]>([])
    chatHistory,          \* useState<Dialogue[]>([])
    feedback,             \* useState<Feedback>({text: "", color: ""})
    isExplaining,         \* useState(false)
    explanation,          \* useState("")
    isSpeaking,           \* useState(false)
    showMenu,             \* useState(false)
    audioContextRef,      \* useRef<AudioContext | null>(null)
    advanceTimers,        \* pending 1200 ms timers, each holding its nextDialogueIdx
    feedbackTimers,       \* number of pending 3000 ms timers
    explanationRequests,  \* getGrammarAnalysis calls awaiting their response
    speechRequests,       \* generateJapaneseSpeech calls awaiting their response
    playing,              \* buffer sources started whose onended has not fired
    sentence,             \* argument of a stand-alone parseSentence call
    parsed,               \* its result
    inputs,               \* user strings of a stand-alone answer check
    refs,                 \* reference segments of a stand-alone answer check
    verdict,              \* branch the stand-alone answer check took
    data,                 \* Uint8Array argument of a stand-alone decodeAudioData call
    numChannels,          \* its numChannels argument
    decoded,              \* the channel data of the AudioBuffer it returned
    pc                    \* position of the stand-alone call: "idle", "start", "done"

appVars == <<currentScenarioIdx, currentDialogueIdx, userInputs, chatHistory,
             feedback, isExplaining, explanation, isSpeaking, showMenu,
             audioContextRef, advanceTimers, feedbackTimers,
             explanationRequests, speechRequests, playing>>

callVars == <<sentence, parsed, inputs, refs, verdict, data, numChannels, decoded, pc>>

vars == <<appVars, callVars>>

----------------------------------------------------------------------------
(* Bounds of the model *)

MaxSentenceLen == 4
MaxRefLen == 3
MaxInputLen == 2
MaxHistory == 2
MaxTimers == 2
MaxFeedbackTimers == 1
MaxBytes == 4

----------------------------------------------------------------------------
(* Characters and strings *)

Punct == {"JMARU", "JTEN", "FQ", "?", "FEX", "!"}

Whitespace == {" ", "IDSP"}

Letters == {"a", "b"}

SentenceChars == Punct \cup Letters \cup {" "}

InputChars == Letters \cup Whitespace

StringsOver(chars, n) == UNION {[1..k -> chars] : k \in 0..n}

Sentences == StringsOver(SentenceChars, MaxSentenceLen)

RefSentences == StringsOver(SentenceChars, MaxRefLen)

InputStrings == StringsOver(InputChars, MaxInputLen)

----------------------------------------------------------------------------
(* parseSentence *)

IsPunct(c) == c \in Punct

\* sentence.match(/[...]/g) || [] : the global match scans left to right and
\* collects every character of the class.
RECURSIVE MatchFrom(_, _)
MatchFrom(s, i) ==
    IF i > Len(s) THEN <<>>
    ELSE IF IsPunct(s[i]) THEN <<s[i]>> \o MatchFrom(s, i + 1)
    ELSE MatchFrom(s, i + 1)

MatchPunct(s) == MatchFrom(s, 1)

\* sentence.split(/[...]/) : cuts at every separator and keeps the pieces
\* between them, the empty ones included.
RECURSIVE SplitFrom(_, _, _)
SplitFrom(s, i, piece) ==
    IF i > Len(s) THEN <<piece>>
    ELSE IF IsPunct(s[i]) THEN <<piece>> \o SplitFrom(s, i + 1, <<>>)
    ELSE SplitFrom(s, i + 1, Append(piece, s[i]))

RECURSIVE SplitFromAny(_, _, _)
SplitFromAny(s, i, piece) ==
    IF i > Len(s) THEN <<piece>>
    ELSE IF IsPunct(s[i]) \/ s[i] = " " THEN <<piece>> \o SplitFromAny(s, i + 1, <<>>)
    ELSE SplitFromAny(s, i + 1, Append(piece, s[i]))

SplitPunctOrSpace(s) == SplitFromAny(s, 1, <<>>)

SplitPunct(s) == SplitFrom(s, 1, <<>>)

NonEmpty(p) == Len(p) > 0

FilterNoEmpty(pieces) == pieces

LongerThanOne(p) == Len(p) > 1

FilterLongPieces(pieces) == SelectSeq(pieces, LongerThanOne)

FilterPieces(pieces) == SelectSeq(pieces, NonEmpty)

\* An undefined sentence (currentDialogue?.jp of a missing dialogue) is falsy
\* like the empty string and is written <<>>.
parseSentence(s) ==
    IF Len(s) = 0 THEN [segments |-> <<>>, punctuations |-> <<>>]
    ELSE [segments |-> FilterPieces(SplitPunct(s)),
          punctuations |-> MatchPunct(s)]

----------------------------------------------------------------------------
(* The answer comparison of checkAnswers *)

IsSpace(c) == c \in Whitespace

RECURSIVE TrimStart(_)
TrimStart(s) ==
    IF Len(s) > 0 /\ IsSpace(Head(s)) THEN TrimStart(Tail(s)) ELSE s

RECURSIVE TrimEnd(_)
TrimEnd(s) ==
    IF Len(s) > 0 /\ IsSpace(s[Len(s)]) THEN TrimEnd(SubSeq(s, 1, Len(s) - 1)) ELSE s

\* String.prototype.trim
Trim(s) == TrimEnd(TrimStart(s))

NotSpace(c) == ~IsSpace(c)

ReplaceNone(s) == s

\* .replace(/\s/g, '')
ReplaceSpaces(s) == SelectSeq(s, NotSpace)

Normalize(s) == ReplaceSpaces(Trim(s))

\* userInputs.every((input, idx) => ... === segments[idx]...); reading
\* segments[idx] beyond the end gives undefined, and .trim() on it throws.
EveryThrows(ins, segs) ==
    /\ Len(ins) > Len(segs)
    /\ \A idx \in 1..Len(segs) : Normalize(ins[idx]) = Normalize(segs[idx])

someCorrect(ins, segs) ==
    \E idx \in 1..Len(ins) :
        idx <= Len(segs) /\ Normalize(ins[idx]) = Normalize(segs[idx])

isAllCorrect(ins, segs) ==
    \A idx \in 1..Len(ins) :
        idx <= Len(segs) /\ Normalize(ins[idx]) = Normalize(segs[idx])

----------------------------------------------------------------------------
(* Static content and values *)

Dialogue(speaker, jp, zh) == [speaker |-> speaker, jp |-> jp, zh |-> zh]

\* The scenario table: two lessons, the first with two dialogues (one and two
\* segments), the second with one.
SCENARIOS ==
    << [id |-> 1, title |-> "lesson 1",
        dialogues |-> << Dialogue("A", <<"a", "JMARU">>, "zh-1-1"),
                         Dialogue("B", <<"a", "JTEN", "b", "FQ">>, "zh-1-2") >>],
       [id |-> 2, title |-> "lesson 2",
        dialogues |-> << Dialogue("A", <<"b", "!">>, "zh-2-1") >>] >>

ScenarioIdxs == 0..(Len(SCENARIOS) - 1)

\* { ...currentDialogue } of an undefined currentDialogue is the object {}.
EmptyObject == Dialogue("undefined", <<>>, "undefined")

NoFeedback == [text |-> "", color |-> ""]
CorrectFeedback == [text |-> "all correct", color |-> "text-green-600"]
CompletedFeedback == [text |-> "chapter completed", color |-> "text-indigo-600 font-bold"]
WrongFeedback == [text |-> "not yet right", color |-> "text-red-500"]

\* prev.text.includes(<the marker of the wrong-answer message>)
IncludesNotYetRight(text) == text = WrongFeedback.text

DialoguesOf(s) == SCENARIOS[s + 1].dialogues

\* scenario?.dialogues[currentDialogueIdx] is defined
HasDialogue(s, d) == d >= 0 /\ d < Len(DialoguesOf(s))

DialogueAt(s, d) == DialoguesOf(s)[d + 1]

JpAt(s, d) == IF HasDialogue(s, d) THEN DialogueAt(s, d).jp ELSE <<>>

SegmentsAt(s, d) == parseSentence(JpAt(s, d)).segments

\* what the current render derives from the state
hasCurrentDialogue == HasDialogue(currentScenarioIdx, currentDialogueIdx)
currentDialogue == DialogueAt(currentScenarioIdx, currentDialogueIdx)
segments == SegmentsAt(currentScenarioIdx, currentDialogueIdx)
punctuations == parseSentence(JpAt(currentScenarioIdx, currentDialogueIdx)).punctuations

Blank(n) == [i \in 1..n |-> <<>>]

\* the dependency list of the effect
Deps(s, d) == <<s, d, Len(SegmentsAt(s, d))>>

NeverChanged(s, d) == FALSE

DepsChanged(s, d) == Deps(s, d) # Deps(currentScenarioIdx, currentDialogueIdx)

CommitKeepsExplanation(s, d, newInputs, newExplanation, newFeedback) ==
    /\ currentScenarioIdx' = s
    /\ currentDialogueIdx' = d
    /\ explanation' = newExplanation
    /\ IF DepsChanged(s, d)
       THEN /\ userInputs' = Blank(Len(SegmentsAt(s, d)))
            /\ feedback' = NoFeedback
       ELSE /\ userInputs' = newInputs
            /\ feedback' = newFeedback

\* The commit that ends a handler: the handler's own updates, then the effect
\* when one of its dependencies changed.
Commit(s, d, newInputs, newExplanation, newFeedback) ==
    /\ currentScenarioIdx' = s
    /\ currentDialogueIdx' = d
    /\ IF DepsChanged(s, d)
       THEN /\ userInputs' = Blank(Len(SegmentsAt(s, d)))
            /\ explanation' = ""
            /\ feedback' = NoFeedback
       ELSE /\ userInputs' = newInputs
            /\ explanation' = newExplanation
            /\ feedback' = newFeedback

----------------------------------------------------------------------------
(* The application *)

AppInit ==
    /\ currentScenarioIdx = 0
    /\ currentDialogueIdx = 0
    /\ userInputs = Blank(Len(SegmentsAt(0, 0)))
    /\ chatHistory = <<>>
    /\ feedback = NoFeedback
    /\ isExplaining = FALSE
    /\ explanation = ""
    /\ isSpeaking = FALSE
    /\ showMenu = FALSE
    /\ audioContextRef = "null"
    /\ advanceTimers = <<>>
    /\ feedbackTimers = 0
    /\ explanationRequests = <<>>
    /\ speechRequests = <<>>
    /\ playing = 0

\* no AudioBuffer returned yet
NotDecoded == [threw |-> FALSE, channels |-> <<>>]

CallIdle ==
    /\ sentence = <<>>
    /\ parsed = parseSentence(<<>>)
    /\ inputs = <<>>
    /\ refs = <<>>
    /\ verdict = "none"
    /\ data = <<>>
    /\ numChannels = 1
    /\ decoded = NotDecoded
    /\ pc = "idle"

Init == AppInit /\ CallIdle

toggleMenu ==
    /\ UNCHANGED callVars
    /\ showMenu' = ~showMenu
    /\ UNCHANGED <<currentScenarioIdx, currentDialogueIdx, userInputs, chatHistory,
                   feedback, isExplaining, explanation, isSpeaking, audioContextRef,
                   advanceTimers, feedbackTimers, explanationRequests,
                   speechRequests, playing>>

handleSelectScenario(idx) ==
    /\ UNCHANGED callVars
    /\ showMenu
    /\ Commit(idx, 0, userInputs, explanation, feedback)
    /\ chatHistory' = <<>>
    /\ showMenu' = FALSE
    /\ UNCHANGED <<isExplaining, isSpeaking, audioContextRef, advanceTimers,
                   feedbackTimers, explanationRequests, speechRequests, playing>>

\* newInputs[index] = value on a copy of the array; an index past the end
\* leaves holes, which read as undefined.
SetAt(arr, index, value) ==
    [i \in 1..(IF index + 1 > Len(arr) THEN index + 1 ELSE Len(arr)) |->
        IF i = index + 1 THEN value
        ELSE IF i <= Len(arr) THEN arr[i] ELSE <<"undefined">>]

\* What the input of a segment is changed to: the segment followed by a
\* space, or nothing (the text deleted).
TypedValues(segment) == {segment \o <<" ">>, <<>>}

handleInputChange(index, value) ==
    /\ UNCHANGED callVars
    /\ userInputs' = SetAt(userInputs, index, value)
    /\ UNCHANGED <<currentScenarioIdx, currentDialogueIdx, chatHistory, feedback,
                   isExplaining, explanation, isSpeaking, showMenu, audioContextRef,
                   advanceTimers, feedbackTimers, explanationRequests,
                   speechRequests, playing>>

showAnswerHint ==
    /\ UNCHANGED callVars
    /\ userInputs' = segments
    /\ UNCHANGED <<currentScenarioIdx, currentDialogueIdx, chatHistory, feedback,
                   isExplaining, explanation, isSpeaking, showMenu, audioContextRef,
                   advanceTimers, feedbackTimers, explanationRequests,
                   speechRequests, playing>>

checkAnswers ==
    /\ UNCHANGED callVars
    /\ ~EveryThrows(userInputs, segments)
    /\ IF isAllCorrect(userInputs, segments)
       THEN /\ Len(chatHistory) < MaxHistory
            /\ chatHistory' = Append(chatHistory,
                                 IF hasCurrentDialogue THEN currentDialogue
                                 ELSE EmptyObject)
            /\ IF currentDialogueIdx + 1 < Len(DialoguesOf(currentScenarioIdx))
               THEN /\ Len(advanceTimers) < MaxTimers
                    /\ advanceTimers' = Append(advanceTimers, currentDialogueIdx + 1)
                    /\ feedback' = CorrectFeedback
               ELSE /\ advanceTimers' = advanceTimers
                    /\ feedback' = CompletedFeedback
            /\ feedbackTimers' = feedbackTimers
       ELSE /\ feedbackTimers < MaxFeedbackTimers
            /\ feedback' = WrongFeedback
            /\ feedbackTimers' = feedbackTimers + 1
            /\ UNCHANGED <<chatHistory, advanceTimers>>
    /\ UNCHANGED <<currentScenarioIdx, currentDialogueIdx, userInputs, isExplaining,
                   explanation, isSpeaking, showMenu, audioContextRef,
                   explanationRequests, speechRequests, playing>>

advanceTimerFiresIncrement ==
    /\ UNCHANGED callVars
    /\ advanceTimers # <<>>
    /\ advanceTimers' = Tail(advanceTimers)
    /\ Commit(currentScenarioIdx, currentDialogueIdx + 1, userInputs, explanation,
              NoFeedback)
    /\ UNCHANGED <<chatHistory, isExplaining, isSpeaking, showMenu, audioContextRef,
                   feedbackTimers, explanationRequests, speechRequests, playing>>

\* the callback of setTimeout(..., 1200)
advanceTimerFires ==
    /\ UNCHANGED callVars
    /\ advanceTimers # <<>>
    /\ advanceTimers' = Tail(advanceTimers)
    /\ Commit(currentScenarioIdx, Head(advanceTimers), userInputs, explanation,
              NoFeedback)
    /\ UNCHANGED <<chatHistory, isExplaining, isSpeaking, showMenu, audioContextRef,
                   feedbackTimers, explanationRequests, speechRequests, playing>>

\* the callback of setTimeout(..., 3000)
feedbackTimerFires ==
    /\ UNCHANGED callVars
    /\ feedbackTimers > 0
    /\ feedbackTimers' = feedbackTimers - 1
    /\ feedback' = IF IncludesNotYetRight(feedback.text) THEN NoFeedback ELSE feedback
    /\ UNCHANGED <<currentScenarioIdx, currentDialogueIdx, userInputs, chatHistory,
                   isExplaining, explanation, isSpeaking, showMenu, audioContextRef,
                   advanceTimers, explanationRequests, speechRequests, playing>>

----------------------------------------------------------------------------
(* The two remote operations *)

\* what the text-generation call does: answers with a text, answers without
\* one, or fails
GrammarResponses == {"text", "no text", "throws"}

ResponseText(zh) == "analysis of " \o zh
NoTextFallback == "no analysis available for now"
ErrorFallback == "analysis failed, check the network or retry later"

Fulfilled(v) == [rejected |-> FALSE, value |-> v]
Rejected == [rejected |-> TRUE, value |-> ""]

getGrammarAnalysisRethrows(jp, zh, response) ==
    IF response = "throws" THEN Rejected
    ELSE IF response = "no text" THEN Fulfilled(NoTextFallback)
    ELSE Fulfilled(ResponseText(zh))

\* the promise getGrammarAnalysis returns
getGrammarAnalysis(jp, zh, response) ==
    IF response = "throws" THEN Fulfilled(ErrorFallback)
    ELSE IF response = "no text" THEN Fulfilled(NoTextFallback)
    ELSE Fulfilled(ResponseText(zh))

handleGetExplanationUnguarded ==
    /\ UNCHANGED callVars
    /\ hasCurrentDialogue
    /\ Len(explanationRequests) < 2
    /\ isExplaining' = TRUE
    /\ explanation' = ""
    /\ explanationRequests' =
           Append(explanationRequests, [jp |-> currentDialogue.jp, zh |-> currentDialogue.zh])
    /\ UNCHANGED <<currentScenarioIdx, currentDialogueIdx, userInputs, chatHistory,
                   feedback, isSpeaking, showMenu, audioContextRef, advanceTimers,
                   feedbackTimers, speechRequests, playing>>

\* handleGetExplanation up to its await
handleGetExplanation ==
    /\ UNCHANGED callVars
    /\ hasCurrentDialogue
    /\ ~isExplaining
    /\ isExplaining' = TRUE
    /\ explanation' = ""
    /\ explanationRequests' =
           Append(explanationRequests, [jp |-> currentDialogue.jp, zh |-> currentDialogue.zh])
    /\ UNCHANGED <<currentScenarioIdx, currentDialogueIdx, userInputs, chatHistory,
                   feedback, isSpeaking, showMenu, audioContextRef, advanceTimers,
                   feedbackTimers, speechRequests, playing>>

explanationResolvesIfCurrent(response) ==
    /\ UNCHANGED callVars
    /\ explanationRequests # <<>>
    /\ explanationRequests' = Tail(explanationRequests)
    /\ LET req == Head(explanationRequests)
           result == getGrammarAnalysis(req.jp, req.zh, response)
       IN  /\ isExplaining' = FALSE
           /\ explanation' =
                  IF hasCurrentDialogue /\ currentDialogue.zh = req.zh
                  THEN result.value ELSE explanation
    /\ UNCHANGED <<currentScenarioIdx, currentDialogueIdx, userInputs, chatHistory,
                   feedback, isSpeaking, showMenu, audioContextRef, advanceTimers,
                   feedbackTimers, speechRequests, playing>>

\* handleGetExplanation after its await: a rejected promise ends the handler
\* there, and the two updates after it are not made.
explanationResolves(response) ==
    /\ UNCHANGED callVars
    /\ explanationRequests # <<>>
    /\ explanationRequests' = Tail(explanationRequests)
    /\ LET req == Head(explanationRequests)
           result == getGrammarAnalysis(req.jp, req.zh, response)
       IN  IF result.rejected
           THEN UNCHANGED <<explanation, isExplaining>>
           ELSE /\ explanation' = result.value
                /\ isExplaining' = FALSE
    /\ UNCHANGED <<currentScenarioIdx, currentDialogueIdx, userInputs, chatHistory,
                   feedback, isSpeaking, showMenu, audioContextRef, advanceTimers,
                   feedbackTimers, speechRequests, playing>>

\* The inline audio data of a speech response: whether it is well-formed
\* base64, and the bytes it encodes.
AudioPayloads ==
    { [wellFormed |-> TRUE, bytes |-> <<0, 64, 0, 192>>],
      [wellFormed |-> TRUE, bytes |-> <<0, 64, 0>>],
      [wellFormed |-> FALSE, bytes |-> <<>>] }

NoPayload == [wellFormed |-> FALSE, bytes |-> <<>>]

\* what the speech call does: answers with audio data, answers without any,
\* or fails
SpeechResponses ==
    {[kind |-> "audio", data |-> p] : p \in AudioPayloads}
        \cup {[kind |-> "no data", data |-> NoPayload],
              [kind |-> "throws", data |-> NoPayload]}

\* The value generateJapaneseSpeech resolves to: the data, or null.  The text
\* sent decides nothing the application reads, so a pending call does not
\* record it.
generateJapaneseSpeech(response) ==
    IF response.kind = "audio"
    THEN [isNull |-> FALSE, data |-> response.data]
    ELSE [isNull |-> TRUE, data |-> NoPayload]

\* atob throws on a string that is not base64
decodeBase64Throws(payload) == ~payload.wellFormed

decodeBase64(payload) == payload.bytes

\* new Int16Array(data.buffer) throws on an odd byte length
decodeAudioDataThrows(bytes) == Len(bytes) % 2 # 0

\* values of Uint8Array elements
Bytes == {0, 1, 64, 127, 128, 192, 255}

ByteArrays == UNION {[1..n -> Bytes] : n \in 0..MaxBytes}

ChannelCounts == {1, 2}

\* the divisor of every sample
Int16Scale == 32768

Int16AtBigEndian(bytes, i) ==
    LET u == 256 * bytes[2 * i + 1] + bytes[2 * i + 2]
    IN  IF u >= 32768 THEN u - 65536 ELSE u

\* dataInt16[i]: element i of the Int16Array view, two bytes with the low
\* byte first, in two's complement
Int16At(bytes, i) ==
    LET u == bytes[2 * i + 1] + 256 * bytes[2 * i + 2]
    IN  IF u >= 32768 THEN u - 65536 ELSE u

\* dataInt16.length
Int16Length(bytes) == Len(bytes) \div 2

\* dataInt16[...] / 32768.0, kept as the fraction it is
Sample(k) == [num |-> k, den |-> Int16Scale]

\* The channel data of the buffer decodeAudioData returns.  createBuffer
\* takes the whole part of frameCount, and a write beyond a channel's length
\* stores nothing.
decodeAudioData(bytes, channels) ==
    LET frameCount == Int16Length(bytes) \div channels
    IN  [channel \in 1..channels |->
            [i \in 1..frameCount |->
                Sample(Int16At(bytes, (i - 1) * channels + (channel - 1)))]]

\* playAudio up to its await
playAudio ==
    /\ UNCHANGED callVars
    /\ hasCurrentDialogue
    /\ ~isSpeaking
    /\ isSpeaking' = TRUE
    /\ speechRequests' = Append(speechRequests, "generateJapaneseSpeech")
    /\ UNCHANGED <<currentScenarioIdx, currentDialogueIdx, userInputs, chatHistory,
                   feedback, isExplaining, explanation, showMenu, audioContextRef,
                   advanceTimers, feedbackTimers, explanationRequests, playing>>

\* The rest of playAudio once the speech call has resolved to base64Audio:
\* the new values of <<isSpeaking, audioContextRef, playing>>.
AfterSpeechNoCatch(base64Audio) ==
    IF base64Audio.isNull THEN <<FALSE, audioContextRef, playing>>
    ELSE IF decodeBase64Throws(base64Audio.data)
            \/ decodeAudioDataThrows(decodeBase64(base64Audio.data))
         THEN <<isSpeaking, "AudioContext", playing>>
         ELSE <<isSpeaking, "AudioContext", playing + 1>>

AfterSpeech(base64Audio) ==
    IF base64Audio.isNull THEN <<FALSE, audioContextRef, playing>>
    ELSE IF decodeBase64Throws(base64Audio.data)
            \/ decodeAudioDataThrows(decodeBase64(base64Audio.data))
         THEN <<FALSE, "AudioContext", playing>>
         ELSE <<isSpeaking, "AudioContext", playing + 1>>

speechResolves(response) ==
    /\ UNCHANGED callVars
    /\ speechRequests # <<>>
    /\ speechRequests' = Tail(speechRequests)
    /\ LET after == AfterSpeech(generateJapaneseSpeech(response))
       IN  /\ isSpeaking' = after[1]
           /\ audioContextRef' = after[2]
           /\ playing' = after[3]
    /\ UNCHANGED <<currentScenarioIdx, currentDialogueIdx, userInputs, chatHistory,
                   feedback, isExplaining, explanation, showMenu, advanceTimers,
                   feedbackTimers, explanationRequests>>

\* source.onended
playbackEnded ==
    /\ UNCHANGED callVars
    /\ playing > 0
    /\ playing' = playing - 1
    /\ isSpeaking' = FALSE
    /\ UNCHANGED <<currentScenarioIdx, currentDialogueIdx, userInputs, chatHistory,
                   feedback, isExplaining, explanation, showMenu, audioContextRef,
                   advanceTimers, feedbackTimers, explanationRequests, speechRequests>>

----------------------------------------------------------------------------
(* Specifications *)

Next ==
    \/ toggleMenu
    \/ (\E idx \in ScenarioIdxs : handleSelectScenario(idx))
    \/ (\E index \in 0..(Len(segments) - 1) :
          \E value \in TypedValues(segments[index + 1]) :
              handleInputChange(index, value))
    \/ showAnswerHint
    \/ checkAnswers
    \/ advanceTimerFires
    \/ feedbackTimerFires
    \/ handleGetExplanation
    \/ (\E response \in GrammarResponses : explanationResolves(response))
    \/ playAudio
    \/ (\E response \in SpeechResponses : speechResolves(response))
    \/ playbackEnded

Spec == Init /\ [][Next]_vars

\* Every speech response arrives and every playback ends.
FairSpec ==
    /\ Spec
    /\ WF_vars(\E response \in SpeechResponses : speechResolves(response))
    /\ WF_vars(playbackEnded)

\* The app when no scenario is selected between a correct check and the
\* firing of its timer.
NextUninterrupted ==
    \/ toggleMenu
    \/ (\E idx \in ScenarioIdxs : advanceTimers = <<>> /\ handleSelectScenario(idx))
    \/ (\E index \in 0..(Len(segments) - 1) :
          \E value \in TypedValues(segments[index + 1]) :
              handleInputChange(index, value))
    \/ showAnswerHint
    \/ checkAnswers
    \/ advanceTimerFires
    \/ feedbackTimerFires
    \/ handleGetExplanation
    \/ (\E response \in GrammarResponses : explanationResolves(response))
    \/ playAudio
    \/ (\E response \in SpeechResponses : speechResolves(response))
    \/ playbackEnded

SpecUninterrupted == Init /\ [][NextUninterrupted]_vars

\* parseSentence on its own, over every sentence of the bound
InitParse ==
    /\ AppInit
    /\ sentence \in Sentences
    /\ parsed = parseSentence(<<>>)
    /\ inputs = <<>>
    /\ refs = <<>>
    /\ verdict = "none"
    /\ data = <<>>
    /\ numChannels = 1
    /\ decoded = NotDecoded
    /\ pc = "start"

parseCall ==
    /\ pc = "start"
    /\ parsed' = parseSentence(sentence)
    /\ pc' = "done"
    /\ UNCHANGED <<appVars, sentence, inputs, refs, verdict, data, numChannels, decoded>>

SpecParse == InitParse /\ [][parseCall]_vars

\* the comparison of checkAnswers on its own: the reference segments of every
\* sentence of the bound, against every list of typed strings of that length
InitCheck ==
    /\ AppInit
    /\ sentence = <<>>
    /\ parsed = parseSentence(<<>>)
    /\ refs \in {parseSentence(s).segments : s \in RefSentences}
    /\ inputs \in [1..Len(refs) -> InputStrings]
    /\ verdict = "none"
    /\ data = <<>>
    /\ numChannels = 1
    /\ decoded = NotDecoded
    /\ pc = "start"

checkCall ==
    /\ pc = "start"
    /\ verdict' = IF isAllCorrect(inputs, refs) THEN "all correct" ELSE "not correct"
    /\ pc' = "done"
    /\ UNCHANGED <<appVars, sentence, parsed, inputs, refs, data, numChannels, decoded>>

SpecCheck == InitCheck /\ [][checkCall]_vars

\* decodeAudioData on its own: every byte array of the bound, one or two
\* channels
InitDecode ==
    /\ AppInit
    /\ sentence = <<>>
    /\ parsed = parseSentence(<<>>)
    /\ inputs = <<>>
    /\ refs = <<>>
    /\ verdict = "none"
    /\ data \in ByteArrays
    /\ numChannels \in ChannelCounts
    /\ decoded = NotDecoded
    /\ pc = "start"

decodeCall ==
    /\ pc = "start"
    /\ decoded' = IF decodeAudioDataThrows(data)
                  THEN [threw |-> TRUE, channels |-> <<>>]
                  ELSE [threw |-> FALSE,
                        channels |-> decodeAudioData(data, numChannels)]
    /\ pc' = "done"
    /\ UNCHANGED <<appVars, sentence, parsed, inputs, refs, verdict, data,
                   numChannels>>

SpecDecode == InitDecode /\ [][decodeCall]_vars

----------------------------------------------------------------------------
(* Properties of parseSentence (SpecParse) *)

NoMark(s) == \A i \in 1..Len(s) : ~IsPunct(s[i])

\* the k-th smallest element of a set of positions
Nth(S, k) == CHOOSE x \in S : Cardinality({y \in S : y < x}) = k - 1

\* positions where a run of non-punctuation characters begins
RunStarts(s) ==
    {i \in 1..Len(s) : ~IsPunct(s[i]) /\ (i = 1 \/ IsPunct(s[i - 1]))}

\* the last position of the run that begins at i
RunEnd(s, i) ==
    CHOOSE j \in i..Len(s) :
        /\ \A k \in i..j : ~IsPunct(s[k])
        /\ (j = Len(s) \/ IsPunct(s[j + 1]))

MaximalRuns(s) ==
    [k \in 1..Cardinality(RunStarts(s)) |->
        SubSeq(s, Nth(RunStarts(s), k), RunEnd(s, Nth(RunStarts(s), k)))]

MarkPositions(s) == {i \in 1..Len(s) : IsPunct(s[i])}

MarksInOrder(s) ==
    [k \in 1..Cardinality(MarkPositions(s)) |-> s[Nth(MarkPositions(s), k)]]

\* marks that stand first in the sentence or directly after another mark
UnprecededMarks(s) ==
    {i \in MarkPositions(s) : i = 1 \/ IsPunct(s[i - 1])}

\* C5 as stated: for every sentence, parseSentence returns no more
\* punctuation marks than segments.
C5_PunctuationAtMostSegments ==
    pc = "done" => Len(parsed.punctuations) <= Len(parsed.segments)

\* C5 amended: for every sentence, the number of punctuation marks returned
\* is at most the number of segments plus the number of marks that stand
\* first or directly after another mark; so it is at most the number of
\* segments when no mark is leading or consecutive.
C5_PunctuationBound ==
    pc = "done" =>
        Len(parsed.punctuations)
            <= Len(parsed.segments) + Cardinality(UnprecededMarks(sentence))

C5_Witness ==
    /\ pc = "done"
    /\ sentence = <<"JTEN", "a", "FQ", "b">>
    /\ Len(parsed.punctuations) = 2
    /\ Len(parsed.segments) = 2

\* C6: for every sentence, the segments are exactly the non-empty maximal
\* runs of non-punctuation characters in order (none empty, none holding a
\* mark), the punctuations are every mark in order, and the empty sentence
\* gives two empty sequences.
C6_SegmentsAreMaximalRuns ==
    pc = "done" =>
        /\ parsed.segments = MaximalRuns(sentence)
        /\ parsed.punctuations = MarksInOrder(sentence)
        /\ \A k \in 1..Len(parsed.segments) :
               Len(parsed.segments[k]) > 0 /\ NoMark(parsed.segments[k])
        /\ (sentence = <<>> =>
               parsed.segments = <<>> /\ parsed.punctuations = <<>>)

C6_Witness ==
    /\ pc = "done"
    /\ sentence = <<"a", "JMARU", "b", "FQ">>
    /\ parsed.segments = << <<"a">>, <<"b">> >>
    /\ parsed.punctuations = <<"JMARU", "FQ">>

\* C7 as stated: a sentence without punctuation gives exactly one segment,
\* the trimmed sentence, and no punctuation mark.
C7_OneTrimmedSegment ==
    (pc = "done" /\ NoMark(sentence)) =>
        /\ parsed.segments = <<Trim(sentence)>>
        /\ parsed.punctuations = <<>>

\* C7 amended: a non-empty sentence without punctuation gives exactly one
\* segment, the sentence itself with its whitespace kept, and no
\* punctuation mark; the empty sentence gives no segment.
C7_OneUntrimmedSegment ==
    (pc = "done" /\ NoMark(sentence)) =>
        /\ parsed.segments = (IF sentence = <<>> THEN <<>> ELSE <<sentence>>)
        /\ parsed.punctuations = <<>>

C7_Witness ==
    /\ pc = "done"
    /\ sentence = <<" ", "a", " ">>
    /\ parsed.segments = << <<" ", "a", " ">> >>
    /\ parsed.punctuations = <<>>

----------------------------------------------------------------------------
(* Properties of the answer comparison (SpecCheck) *)

\* the string with every whitespace character removed
RECURSIVE WithoutWhitespace(_)
WithoutWhitespace(s) ==
    IF s = <<>> THEN <<>>
    ELSE IF Head(s) \in Whitespace THEN WithoutWhitespace(Tail(s))
    ELSE <<Head(s)>> \o WithoutWhitespace(Tail(s))

\* C2: for lists of equal length, the all-correct branch is taken exactly
\* when at every index the user string and the reference segment are equal
\* once all whitespace is removed from both.
C2_CorrectIffEqualWithoutWhitespace ==
    pc = "done" =>
        ((verdict = "all correct") <=>
            \A idx \in 1..Len(inputs) :
                WithoutWhitespace(inputs[idx]) = WithoutWhitespace(refs[idx]))

C2_Witness ==
    /\ pc = "done"
    /\ verdict = "all correct"
    /\ refs = << <<"a">>, <<"b">> >>
    /\ inputs = << <<"a", " ">>, <<" ", "b">> >>

----------------------------------------------------------------------------
(* Properties of the session (Spec) *)

\* C1 as stated: the chat history holds each completed dialogue at most
\* once, whatever sequence of checkAnswers calls and timer firings occurs.
C1_EachDialogueOnce ==
    \A i, j \in 1..Len(chatHistory) :
        i # j => chatHistory[i] # chatHistory[j]

\* at least one input does not match its reference segment
SomeMismatch ==
    \E idx \in 1..Len(userInputs) :
        idx <= Len(segments)
        /\ WithoutWhitespace(userInputs[idx]) # WithoutWhitespace(segments[idx])

\* C3: a checkAnswers call with at least one mismatching input, and the
\* 3000 ms timer it schedules, change only the feedback message: scenario
\* index, dialogue index, chat history and user inputs stay as they are.
C3_WrongAnswerStaysOnDialogue ==
    [][((checkAnswers /\ SomeMismatch) \/ feedbackTimerFires) =>
          UNCHANGED <<currentScenarioIdx, currentDialogueIdx, chatHistory,
                      userInputs, explanation, isExplaining, isSpeaking, showMenu,
                      advanceTimers>>]_vars

C3_Witness ==
    /\ feedback = WrongFeedback
    /\ feedbackTimers > 0
    /\ currentDialogueIdx = 1
    /\ userInputs = << <<"a">>, <<>> >>
    /\ Len(chatHistory) = 1

\* C4: in every reachable state the number of input slots equals the number
\* of segments of the active dialogue.
C4_SlotsMatchSegments ==
    Len(userInputs) = Len(segments)

C4_Witness ==
    /\ currentScenarioIdx = 0
    /\ currentDialogueIdx = 1
    /\ Len(segments) = 2
    /\ userInputs = << <<"a", " ">>, <<"b">> >>

\* C8: at most one grammar request and at most one speech request (pending
\* or playing) exist in every reachable state, and a pending request of one
\* kind leaves the other operation free to start.
C8_OneRequestPerKind ==
    /\ Len(explanationRequests) <= 1
    /\ Len(speechRequests) + playing <= 1
    /\ (isExplaining /\ ~isSpeaking /\ hasCurrentDialogue) => ENABLED playAudio
    /\ (isSpeaking /\ ~isExplaining /\ hasCurrentDialogue) => ENABLED handleGetExplanation

C8_Witness ==
    /\ Len(explanationRequests) = 1
    /\ Len(speechRequests) = 1
    /\ isExplaining
    /\ isSpeaking

\* a speech response that leads to no playback: no audio data, or data that
\* fails to decode
NoPlayback(response) ==
    \/ response.kind # "audio"
    \/ ~response.data.wellFormed
    \/ Len(response.data.bytes) % 2 # 0

\* C9: whenever isSpeaking is true it later becomes false again, and it
\* becomes false at once when the speech call gives no audio or decoding
\* throws.
C9_SpeakingIsReset ==
    /\ isSpeaking ~> ~isSpeaking
    /\ [][\A response \in SpeechResponses :
            (speechResolves(response) /\ NoPlayback(response)) => ~isSpeaking']_vars
    /\ [](isSpeaking => (speechRequests # <<>> \/ playing > 0))

C9_Witness ==
    /\ isSpeaking
    /\ playing = 1
    /\ speechRequests = <<>>
    /\ audioContextRef = "AudioContext"

\* the text a grammar request must end with, given what the remote call did
ExpectedExplanation(zh, response) ==
    CASE response = "throws" -> ErrorFallback
      [] response = "no text" -> NoTextFallback
      [] OTHER -> ResponseText(zh)

\* C10: every grammar request ends with the explanation set to the text
\* getGrammarAnalysis returned (a fixed fallback on failure, another fixed
\* string when the response has no text) and isExplaining false again; the
\* flag is never true without a request that will reset it.
C10_ExplanationAlwaysCompletes ==
    /\ [][\A response \in GrammarResponses :
            explanationResolves(response) =>
                /\ ~isExplaining'
                /\ explanation' =
                       ExpectedExplanation(Head(explanationRequests).zh, response)]_vars
    /\ [](isExplaining => explanationRequests # <<>>)
    /\ [](ErrorFallback # NoTextFallback)

C10_Witness ==
    /\ explanation = ErrorFallback
    /\ ~isExplaining
    /\ explanationRequests = <<>>

\* the oldest pending grammar request was issued for a dialogue that is no
\* longer the active one
HeadRequestIsStale ==
    /\ explanationRequests # <<>>
    /\ (~hasCurrentDialogue \/ currentDialogue.zh # Head(explanationRequests).zh)

\* C11: a grammar request is never cancelled.  Changing the scenario or the
\* dialogue leaves the pending request and the busy flag as they are, and a
\* request that resolves after such a change still writes its text for the
\* old dialogue into the explanation.
C11_StaleResultIsApplied ==
    /\ [][\A response \in GrammarResponses :
            (HeadRequestIsStale /\ explanationResolves(response)) =>
                explanation' =
                    ExpectedExplanation(Head(explanationRequests).zh, response)]_vars
    /\ [][(currentScenarioIdx' # currentScenarioIdx
             \/ currentDialogueIdx' # currentDialogueIdx) =>
                /\ explanationRequests' = explanationRequests
                /\ isExplaining' = isExplaining]_vars

\* the explanation on display was produced for the first dialogue of lesson 1
\* while the second one is active
C11_Witness ==
    /\ currentScenarioIdx = 0
    /\ currentDialogueIdx = 1
    /\ explanation = ResponseText("zh-1-1")
    /\ ~isExplaining

\* C12: every step that changes the scenario index or the dialogue index
\* leaves every input slot empty, the feedback empty and the explanation
\* empty; handleSelectScenario also sets the dialogue index to 0, empties
\* the chat history and closes the menu.
C12_ChangeResetsSession ==
    /\ [][(currentScenarioIdx' # currentScenarioIdx
             \/ currentDialogueIdx' # currentDialogueIdx) =>
                /\ userInputs' = Blank(Len(segments'))
                /\ feedback' = NoFeedback
                /\ explanation' = ""]_vars
    /\ [][(\E idx \in ScenarioIdxs : handleSelectScenario(idx)) =>
                /\ currentDialogueIdx' = 0
                /\ chatHistory' = <<>>
                /\ ~showMenu']_vars

\* lesson 2 was selected while a grammar request of lesson 1 was pending
C12_Witness ==
    /\ currentScenarioIdx = 1
    /\ currentDialogueIdx = 0
    /\ chatHistory = <<>>
    /\ ~showMenu
    /\ userInputs = Blank(1)
    /\ feedback = NoFeedback
    /\ explanation = ""
    /\ isExplaining
    /\ Head(explanationRequests).zh = "zh-1-2"

\* the position of a chat entry in the active scenario's dialogue list, 0 when
\* it is not one of its dialogues
PositionOf(entry) ==
    LET ds == DialoguesOf(currentScenarioIdx)
        at == {k \in 1..Len(ds) : ds[k] = entry}
    IN  IF at = {} THEN 0 ELSE CHOOSE k \in at : TRUE

\* C13 as stated: every chat entry is a dialogue of the active scenario, the
\* entries are in ascending dialogue order, and none lies after the active
\* dialogue index.
C13_HistoryIsCompletedDialogues ==
    /\ \A i \in 1..Len(chatHistory) :
           /\ PositionOf(chatHistory[i]) > 0
           /\ PositionOf(chatHistory[i]) - 1 <= currentDialogueIdx
    /\ \A i, j \in 1..Len(chatHistory) :
           i < j => PositionOf(chatHistory[i]) <= PositionOf(chatHistory[j])

\* C15 as stated: the active dialogue index is a valid index into the active
\* scenario's dialogue list in every reachable state.
C15_DialogueIdxValid ==
    currentDialogueIdx >= 0
        /\ currentDialogueIdx < Len(DialoguesOf(currentScenarioIdx))

----------------------------------------------------------------------------
(* Properties of decodeAudioData (SpecDecode) *)

\* the signed 16-bit value of two bytes, low byte first
Signed16(lo, hi) == ((lo + 256 * hi + 32768) % 65536) - 32768

\* C14: decodeAudioData reads its bytes as little-endian signed 16-bit
\* integers; every sample it returns is k/32768 with k in -32768..32767,
\* every channel holds (number of 16-bit values) / (number of channels)
\* frames, and with one channel sample i is the signed value of bytes 2i and
\* 2i+1: the bytes 00 40 00 C0 give 16384/32768 and -16384/32768.
C14_SamplesAreSigned16Over32768 ==
    (pc = "done" /\ ~decoded.threw) =>
        /\ Len(decoded.channels) = numChannels
        /\ \A c \in 1..numChannels :
               /\ Len(decoded.channels[c]) = (Len(data) \div 2) \div numChannels
               /\ \A i \in 1..Len(decoded.channels[c]) :
                      /\ decoded.channels[c][i].den = 32768
                      /\ decoded.channels[c][i].num \in -32768..32767
        /\ numChannels = 1 =>
               \A i \in 1..Len(decoded.channels[1]) :
                   decoded.channels[1][i].num = Signed16(data[2 * i - 1], data[2 * i])
        /\ (numChannels = 1 /\ data = <<0, 64, 0, 192>>) =>
               decoded.channels[1] = <<[num |-> 16384, den |-> 32768],
                                       [num |-> -16384, den |-> 32768]>>

\* the bytes 00 40 00 C0 were decoded for one channel
C14_Witness ==
    /\ pc = "done"
    /\ numChannels = 1
    /\ data = <<0, 64, 0, 192>>
    /\ ~decoded.threw
    /\ Len(decoded.channels[1]) = 2
    /\ decoded.channels[1][2].num = -16384

----------------------------------------------------------------------------
(* Properties of the advance timer (SpecUninterrupted) *)

LastDialogueIdx == Len(DialoguesOf(currentScenarioIdx)) - 1

CorrectCheck == checkAnswers /\ isAllCorrect(userInputs, segments)

\* C16: with no scenario selected between a correct check and the firing of
\* its timer, a correct check before the last dialogue keeps the index and
\* schedules the index one greater than the one it was called on, and the
\* timer sets exactly that index; a correct check on the last dialogue keeps
\* the index, schedules nothing and sets the completed feedback; no step
\* raises the index by more than one, and every index is one of the active
\* scenario's dialogues.
C16_AdvanceByOne ==
    /\ [][(CorrectCheck /\ currentDialogueIdx < LastDialogueIdx) =>
            /\ currentDialogueIdx' = currentDialogueIdx
            /\ advanceTimers' = Append(advanceTimers, currentDialogueIdx + 1)]_vars
    /\ [][advanceTimerFires =>
            /\ currentDialogueIdx' = Head(advanceTimers)
            /\ currentDialogueIdx' <= LastDialogueIdx]_vars
    /\ [][(CorrectCheck /\ currentDialogueIdx = LastDialogueIdx) =>
            /\ currentDialogueIdx' = currentDialogueIdx
            /\ advanceTimers' = advanceTimers
            /\ feedback' = CompletedFeedback]_vars
    /\ [][currentDialogueIdx' <= currentDialogueIdx + 1]_vars
    /\ [](currentDialogueIdx \in 0..LastDialogueIdx)

\* lesson 1 was worked through: its first dialogue advanced to the second,
\* and the second one ended the chapter
C16_Witness ==
    /\ currentScenarioIdx = 0
    /\ currentDialogueIdx = 1
    /\ Len(chatHistory) = 2
    /\ chatHistory[2] = currentDialogue
    /\ feedback = CompletedFeedback
    /\ advanceTimers = <<>>

====
